---------------------------- MODULE Spec2Model ----------------------------
(* Motif counting of inet (src/inet/motifs.py): the counters that map a    *)
(* connectivity matrix to a tally {motif -> (tested, found)} and the       *)
(* addition of tallies.                                                    *)
EXTENDS Integers, Sequences, FiniteSets, TLC

VARIABLES
    matrix,   \* the numpy array handed to a counter
    ret,      \* the object the last counter call returned, or NoObj
    err,      \* the exception the last counter call raised, or "none"
    called,   \* "none" before the call, then the counter that was called
    ops,      \* <<T1, T2, T3>>: the operands of the additions
    acc,      \* the results of the additions computed so far
    apc,      \* position in the sequence of additions, or of calls and additions
    nPV,      \* the number of PV cells handed to the slicing functions
    blocks,   \* what the four slicing functions returned or raised
    dataset,  \* the DataLoader: its experiment list and its motif
    heap,     \* the {'tested':..., 'found':...} dictionaries, by identity
    mod,      \* the ready-to-use objects of the module motifs
    sim       \* a simulated recording: the drawn matrices and the merged ones

vars == <<matrix, ret, err, called, ops, acc, apc, nPV, blocks, dataset, heap,
          mod, sim>>

-----------------------------------------------------------------------------
(* Bounds *)

\* largest number of rows and of columns of an input matrix
MaxN == 3
\* largest number of rows of an input matrix with a non-zero diagonal entry
MaxLoopN == 2
\* largest number of non-zero entries of an input matrix
MaxNonzero == 3
\* how far below -n and above n the number of PV cells handed to a slicing
\* function of an n x n matrix goes
MaxOutside == 1
\* number of cells of the recordings a DataLoader reads
LoadSide == 3
\* largest number of *.syn files a DataLoader reads
MaxFiles == 2
\* largest number of calls and additions in a sequence on the ready-to-use
\* objects
MaxSeqOps == 3
\* number of rows and of columns of the matrices the operands of an addition
\* are counted from
AddSide == 2
\* largest number of non-zero entries of those matrices
MaxAddNonzero == 1
\* largest number of non-zero entries of a square matrix handed to both
\* iicounter and eecounter
SquareNonzero == 2
\* number of PV cells of a simulated recording
SimSide == 3
\* largest number of chemical synapses drawn for a simulated recording
SimChem == 2
\* largest number of electrical synapses drawn for a simulated recording
SimElec == 1
\* number of cells of a recording whose own tally is examined
RecSide == 2
\* largest number of non-zero entries of such a recording
RecNonzero == 2

-----------------------------------------------------------------------------
(* Matrices: shape and entries, indexed from 0 as numpy does *)

Pos(p, q) == (0 .. (p - 1)) \X (0 .. (q - 1))

Rows(m) == m.shape[1]
Cols(m) == m.shape[2]

\* the p x q matrix that holds f on the positions S and 0 elsewhere
MatrixOf(p, q, S, f) ==
    [shape |-> <<p, q>>, a |-> [c \in Pos(p, q) |-> IF c \in S THEN f[c] ELSE 0]]

\* the positions off the diagonal of an n x n matrix
OffDiagonal(n) == { c \in Pos(n, n) : c[1] # c[2] }

\* the sets of at most k of the positions P
Supports(P, k) == { T \in SUBSET P : Cardinality(T) <= k }

RECURSIVE SumF(_, _)
\* f[0] + ... + f[n-1]
SumF(f, n) == IF n <= 0 THEN 0 ELSE f[n - 1] + SumF(f, n - 1)

\* matrix[ np.where(matrix == v) ].size
CountEq(m, v) == Cardinality({ c \in DOMAIN m.a : m.a[c] = v })

\* np.count_nonzero(matrix)
CountNonzero(m) == Cardinality({ c \in DOMAIN m.a : m.a[c] # 0 })

\* np.count_nonzero(matrix[:, col])
ColNonzero(m, col) == Cardinality({ r \in 0 .. (Rows(m) - 1) : m.a[<<r, col>>] # 0 })

\* A.T
Transpose(m) ==
    [shape |-> <<Cols(m), Rows(m)>>,
     a |-> [c \in Pos(Cols(m), Rows(m)) |-> m.a[<<c[2], c[1]>>]]]

\* A * B of numpy matrices: the matrix product
MatMul(A, B) ==
    [shape |-> <<Rows(A), Cols(B)>>,
     a |-> [c \in Pos(Rows(A), Cols(B)) |->
              SumF([k \in 0 .. (Cols(A) - 1) |-> A.a[<<c[1], k>>] * B.a[<<k, c[2]>>]],
                   Cols(A))]]

\* A.sum()
MatSum(A) ==
    SumF([i \in 0 .. (Rows(A) - 1) |->
            SumF([j \in 0 .. (Cols(A) - 1) |-> A.a[<<i, j>>]], Cols(A))],
         Rows(A))

\* np.sum(A.diagonal())
Trace(A) == SumF([i \in 0 .. (Rows(A) - 1) |-> A.a[<<i, i>>]], Rows(A))

\* the ordered choices of 2 among n, in place of comb(n, 2)
Comb2Ordered(n) == n * (n - 1)

\* scipy.misc.comb(n, 2) and comb(n, 3), as integers
Comb2(n) == IF n < 2 THEN 0 ELSE (n * (n - 1)) \div 2
Comb3(n) == IF n < 3 THEN 0 ELSE (n * (n - 1) * (n - 2)) \div 6

-----------------------------------------------------------------------------
(* MotifCounter objects: the dictionary and the attributes set on it *)

NoObj == [none |-> TRUE]

Fields == {"tested", "found"}

Entry(t, f) == [tested |-> t, found |-> f]

\* MotifCounter(): a dictionary without keys and without attributes
EmptyCounter == [dict |-> <<>>, attr |-> <<>>]

Keys(o) == DOMAIN o.dict

SeqRange(s) == { s[i] : i \in DOMAIN s }

\* the keys set to tested 1 at construction
ZeroDictTestedOne(motiflist) == [k \in SeqRange(motiflist) |-> Entry(1, 0)]

\* for key in self.motiflist: self.__setitem__(key, {'tested':0, 'found':0})
ZeroDict(motiflist) == [k \in SeqRange(motiflist) |-> Entry(0, 0)]

\* only key+'_found' is set
AttrsOfFoundOnly(d) == [x \in (DOMAIN d) \X {"found"} |-> d[x[1]][x[2]]]

\* for key in self: setattr(self, key+'_tested', ...); setattr(self, key+'_found', ...)
AttrsOf(d) == [x \in (DOMAIN d) \X Fields |-> d[x[1]][x[2]]]

\* the names of EEMotifCounter with convergent and divergent exchanged
EEMotifsExchanged == <<"ee_chem", "ee_elec", "ee_c1e", "ee_c2e", "ee_c2",
                       "ee_div", "ee_con", "ee_lin">>

IIMotifs == <<"ii_chem", "ii_elec", "ii_c1e", "ii_c2e", "ii_c2",
              "ii_con", "ii_div", "ii_lin">>
EEMotifs == <<"ee_chem", "ee_elec", "ee_c1e", "ee_c2e", "ee_c2",
              "ee_con", "ee_div", "ee_lin">>
EIMotifs == <<"ei", "e2i", "e3i">>
IEMotifs == <<"ie">>


\* self.__setitem__(key, val)
SetItem(d, key, val) ==
    [k \in (DOMAIN d) \cup {key} |-> IF k = key THEN val ELSE d[k]]

-----------------------------------------------------------------------------
(* IIMotifCounter.read_matrix: the counts found *)

\* syn_chem without the entries equal to 3
SynChemOnesOnly(m) == CountEq(m, 1)

\* syn_chem: entries equal to 1, plus the entries equal to 3
SynChem(m) == CountEq(m, 1) + CountEq(m, 3)

\* syn_elec: entries equal to 2, plus the entries equal to 3
SynElec(m) == CountEq(m, 2) + CountEq(m, 3)

\* the entries (pre, post) equal to 3 whose mirror entry (post, pre) is 1
MirrorOnes(m) ==
    { c \in DOMAIN m.a : m.a[c] = 3 /\ m.a[<<c[2], c[1]>>] = 1 }

\* syn_c1e without the increment for a mirror entry 1
SynC1eNoMirror(m) == CountEq(m, 3)

\* syn_c1e: entries equal to 3, one more for each with a mirror entry 1
SynC1e(m) == CountEq(m, 3) + Cardinality(MirrorOnes(m))

\* syn_c2e incremented when the mirror entry is 3 instead of 1
SynC2eMirrorThree(m) ==
    Cardinality({ c \in DOMAIN m.a : m.a[c] = 3 /\ m.a[<<c[2], c[1]>>] = 3 })

\* syn_c2e incremented for any non-zero mirror entry
SynC2eAnyMirror(m) ==
    Cardinality({ c \in DOMAIN m.a : m.a[c] = 3 /\ m.a[<<c[2], c[1]>>] # 0 })

\* syn_c2e: one for each entry equal to 3 with a mirror entry 1
SynC2e(m) == Cardinality(MirrorOnes(m))

\* A: the copy of the matrix with 3 set to 1 and 2 set to 0
ChemOnly(m) ==
    [shape |-> m.shape,
     a |-> [c \in DOMAIN m.a |->
              IF m.a[c] = 3 THEN 1 ELSE IF m.a[c] = 2 THEN 0 ELSE m.a[c]]]

\* syn_c2 without the division by 2
SynC2NotHalved(A) == Trace(MatMul(A, A))

\* syn_c2 = int(np.sum( (A*A).diagonal() )/2)
SynC2(A) == Trace(MatMul(A, A)) \div 2

\* syn_con computed from A.T*A
SynConSwapped(A) == (MatSum(MatMul(Transpose(A), A)) - MatSum(A)) \div 2

\* J = A*A.T ; syn_con = int( ( J.sum()-A.sum() )/2)
SynCon(A) == (MatSum(MatMul(A, Transpose(A))) - MatSum(A)) \div 2

\* syn_div computed as syn_con is
SynDivAsCon(A) == SynCon(A)

\* J = A.T*A ; syn_div = int(( J.sum()-A.sum() )/2)
SynDiv(A) == (MatSum(MatMul(Transpose(A), A)) - MatSum(A)) \div 2

\* syn_lin without the diagonal subtracted
SynLinWithTrace(A) == MatSum(MatMul(A, A))

\* J = A*A ; syn_lin = int( J.sum() - np.sum(J.diagonal()) )
SynLin(A) == MatSum(MatMul(A, A)) - Trace(MatMul(A, A))

(* IIMotifCounter.read_matrix: the possible connections *)

NChem(n) == n * (n - 1)
NElec(n) == (n * (n - 1)) \div 2
NC1e(n) == NElec(n) * 2
NC2e(n) == NElec(n)
NC2(n) == (n * (n - 1)) \div 2
NCon(n) == (n * (n - 1) * (n - 2)) \div 2
NDiv(n) == (n * (n - 1) * (n - 2)) \div 2
\* n_lin halved like n_con and n_div
NLinHalved(n) == (n * (n - 1) * (n - 2)) \div 2
NLin(n) == n * (n - 1) * (n - 2)

\* the eight __setitem__ calls that end read_matrix, on the dictionary d
IIReadMatrix(d, motif, m) ==
    LET n == Rows(m)
        A == ChemOnly(m)
        chem == Entry(NChem(n), SynChem(m))
        elec == Entry(NElec(n), SynElec(m))
        c1e == Entry(NC1e(n), SynC1e(m))
        c2e == Entry(NC2e(n), SynC2e(m))
        c2 == Entry(NC2(n), SynC2(A))
        con == Entry(NCon(n), SynCon(A))
        div == Entry(NDiv(n), SynDiv(A))
        lin == Entry(NLin(n), SynLin(A))
    IN  SetItem(SetItem(SetItem(SetItem(SetItem(SetItem(SetItem(SetItem(d,
            motif[1], chem), motif[2], elec), motif[3], c1e), motif[4], c2e),
            motif[5], c2), motif[6], con), motif[7], div), motif[8], lin)

\* what a call leaves: the object returned, or the exception raised
Returned(o) == [obj |-> o, err |-> "none"]
Raised(e) == [obj |-> NoObj, err |-> e]

\* the constructor that returns the zeroed keys for a matrix that is not square
SquareCounterZeroed(motif, m) ==
    LET d == IF Rows(m) # Cols(m) THEN ZeroDict(motif)
             ELSE IIReadMatrix(ZeroDict(motif), motif, m)
    IN  Returned([dict |-> d, attr |-> AttrsOf(d)])

\* IIMotifCounter(matrix), and EEMotifCounter(matrix) with its own motiflist:
\* the keys are zeroed, then read_matrix raises IOError or counts
SquareCounter(motif, m) ==
    IF Rows(m) # Cols(m)
    THEN Raised("IOError")
    ELSE LET d == IIReadMatrix(ZeroDict(motif), motif, m)
         IN  Returned([dict |-> d, attr |-> AttrsOf(d)])

\* iicounter(matrix)
IICounter(m) == SquareCounter(IIMotifs, m)

\* eecounter(matrix)
EECounter(m) == SquareCounter(EEMotifs, m)

-----------------------------------------------------------------------------
(* EIMotifCounter and IEMotifCounter *)

\* e2i_tested, e2i_found, e3i_tested, e3i_found: f[col] summed over the
\* columns, or 0 when there is a single row
ColumnSum(m, f) == IF Rows(m) = 1 THEN 0 ELSE SumF(f, Cols(m))

EIReadMatrix(d, m) ==
    LET ecell == Rows(m)
        cols == 0 .. (Cols(m) - 1)
        syn == [col \in cols |-> ColNonzero(m, col)]
        d0 == SetItem(d, "ei", Entry(ecell * Cols(m), CountNonzero(m)))
        d1 == SetItem(d0, "e2i",
                      Entry(ColumnSum(m, [col \in cols |-> Comb2(ecell)]),
                            ColumnSum(m, [col \in cols |-> Comb2(syn[col])])))
    IN  SetItem(d1, "e3i",
                Entry(ColumnSum(m, [col \in cols |-> Comb3(ecell)]),
                      ColumnSum(m, [col \in cols |-> Comb3(syn[col])])))

\* eicounter(matrix)
EICounter(m) ==
    LET d == EIReadMatrix(ZeroDict(EIMotifs), m)
    IN  Returned([dict |-> d, attr |-> AttrsOf(d)])

IEReadMatrix(d, m) ==
    SetItem(d, "ie", Entry(Rows(m) * Cols(m), CountNonzero(m)))

\* iecounter(matrix)
IECounter(m) ==
    LET d == IEReadMatrix(ZeroDict(IEMotifs), m)
    IN  Returned([dict |-> d, attr |-> AttrsOf(d)])

\* obj.<key>_<field>: the attribute set by setattr, AttributeError for a
\* name that was never set
GetAttr(o, key, field) ==
    IF <<key, field>> \in DOMAIN o.attr THEN Returned(o.attr[<<key, field>>])
    ELSE Raised("AttributeError")

-----------------------------------------------------------------------------
(* The counters built without a matrix, and the ready-to-use objects *)

\* IIMotifCounter(), EEMotifCounter(), EIMotifCounter(): the keys are zeroed
\* and read_matrix, which sets the attributes, is not called
IICounterNone == [dict |-> ZeroDict(IIMotifs), attr |-> <<>>]
EECounterNone == [dict |-> ZeroDict(EEMotifs), attr |-> <<>>]
EICounterNone == [dict |-> ZeroDict(EIMotifs), attr |-> <<>>]

\* IEMotifCounter(): the keys are zeroed and __init__ sets the attributes
IECounterNone ==
    [dict |-> ZeroDict(IEMotifs), attr |-> AttrsOf(ZeroDict(IEMotifs))]

\* motifcounter = MotifCounter() ... iecounter = IEMotifCounter()
Module ==
    [motifcounter |-> EmptyCounter,
     iicounter |-> IICounterNone,
     eecounter |-> EECounterNone,
     eicounter |-> EICounterNone,
     iecounter |-> IECounterNone]

-----------------------------------------------------------------------------
(* The inputs and the calls *)

Codes == 0 .. 3

\* m is a square matrix of connection codes with a zero diagonal
SquareInput(m) ==
    \E n \in 0 .. MaxN : \E S \in Supports(OffDiagonal(n), MaxNonzero) :
        \E f \in [S -> Codes \ {0}] : m = MatrixOf(n, n, S, f)

\* m is a square matrix of connection codes with self-connections
LoopInput(m) ==
    \E n \in 0 .. MaxLoopN : \E S \in Supports(Pos(n, n), MaxNonzero) :
        \E f \in [S -> Codes \ {0}] : m = MatrixOf(n, n, S, f)

\* m is a 0/1 block between two populations, of any shape
CrossInput(m) ==
    \E p \in 0 .. MaxN, q \in 0 .. MaxN : \E S \in Supports(Pos(p, q), MaxNonzero) :
        m = MatrixOf(p, q, S, [c \in S |-> 1])

-----------------------------------------------------------------------------
(* MotifCounter.__add__ *)

\* for key in keys: mysum.__setitem__(key, src[key])
SetItems(mysum, keys, src) ==
    [k \in (DOMAIN mysum) \cup keys |-> IF k \in keys THEN src[k] ELSE mysum[k]]

\* the common keys with found added and tested taken from self alone
AddCommonFoundOnly(self, other) ==
    [key \in (Keys(self) \cap Keys(other)) |->
        [tested |-> self.dict[key].tested,
         found |-> self.dict[key].found + other.dict[key].found]]

\* 1) add common keys
AddCommon(self, other) ==
    [key \in (Keys(self) \cap Keys(other)) |->
        [tested |-> self.dict[key].tested + other.dict[key].tested,
         found |-> self.dict[key].found + other.dict[key].found]]

\* self + other without the keys that only other holds
AddDropsOther(self, other) ==
    LET common == AddCommon(self, other)
        diff1 == Keys(self) \ DOMAIN common
        mysum == SetItems(common, diff1, self.dict)
    IN  [dict |-> mysum, attr |-> AttrsOf(mysum)]

\* self + other
Add(self, other) ==
    LET common == AddCommon(self, other)
        diff1 == Keys(self) \ DOMAIN common
        sum1 == SetItems(common, diff1, self.dict)
        diff2 == Keys(other) \ DOMAIN sum1
        mysum == SetItems(sum1, diff2, other.dict)
    IN  [dict |-> mysum, attr |-> AttrsOf(mysum)]

\* the objects the counters return for the zero-diagonal square matrices and
\* the 0/1 blocks of AddSide rows and columns, and motifcounter()
AddOperands ==
    LET n == AddSide
        sq == UNION { { MatrixOf(n, n, S, f) : f \in [S -> Codes \ {0}] } :
                      S \in Supports(OffDiagonal(n), MaxAddNonzero) }
        cr == { MatrixOf(n, n, S, [c \in S |-> 1]) :
                S \in Supports(Pos(n, n), MaxAddNonzero) }
    IN  { IICounter(m).obj : m \in sq } \cup { EECounter(m).obj : m \in sq }
        \cup { EICounter(m).obj : m \in cr } \cup { IECounter(m).obj : m \in cr }
        \cup {EmptyCounter}

NoOps == <<>>
NoSums == [left |-> NoObj, right |-> NoObj, fwd |-> NoObj, bwd |-> NoObj]
NoMatrix == [shape |-> <<0, 0>>, a |-> <<>>]
NoBlocks == <<>>
NoDataset == [none |-> TRUE]
NoHeap == <<>>
NoSim == [none |-> TRUE]

\* nothing is sliced, no DataLoader is built, no entry is tracked by identity
Idle ==
    /\ nPV = 0
    /\ blocks = NoBlocks
    /\ dataset = NoDataset
    /\ heap = NoHeap
    /\ mod = Module
    /\ sim = NoSim

CountInit ==
    /\ SquareInput(matrix) \/ LoopInput(matrix) \/ CrossInput(matrix)
    /\ ret = NoObj
    /\ err = "none"
    /\ called = "none"
    /\ ops = NoOps
    /\ acc = NoSums
    /\ apc = 0
    /\ Idle

Call(name, r) ==
    /\ called = "none"
    /\ called' = name
    /\ ret' = r.obj
    /\ err' = r.err
    /\ UNCHANGED <<matrix, ops, acc, apc, nPV, blocks, dataset, heap, mod, sim>>

IICall == Call("ii", IICounter(matrix))
EECall == Call("ee", EECounter(matrix))
EICall == Call("ei", EICounter(matrix))
IECall == Call("ie", IECounter(matrix))

Init == CountInit

Next == IICall \/ EECall \/ EICall \/ IECall

Spec == Init /\ [][Next]_vars

\* m is a square matrix of connection codes, the diagonal included
AnySquareInput(m) ==
    \E n \in 0 .. MaxN : \E S \in Supports(Pos(n, n), SquareNonzero) :
        \E f \in [S -> Codes \ {0}] : m = MatrixOf(n, n, S, f)

SquareInit ==
    /\ AnySquareInput(matrix)
    /\ ret = NoObj
    /\ err = "none"
    /\ called = "none"
    /\ ops = NoOps
    /\ acc = NoSums
    /\ apc = 0
    /\ Idle

\* iicounter or eecounter is called on the square matrix
NextSquare == IICall \/ EECall

SpecSquare == SquareInit /\ [][NextSquare]_vars

-----------------------------------------------------------------------------
(* iicounter on matrices with entries that are no connection codes *)

BadCodes == {-1, 4}

\* m is a square matrix with an entry outside the connection codes
BadCodeInput(m) ==
    \E n \in 1 .. MaxLoopN : \E S \in Supports(Pos(n, n), MaxNonzero) :
        \E f \in [S -> (Codes \ {0}) \cup BadCodes] :
            /\ \E c \in S : f[c] \in BadCodes
            /\ m = MatrixOf(n, n, S, f)

CodesInit ==
    /\ BadCodeInput(matrix)
    /\ ret = NoObj
    /\ err = "none"
    /\ called = "none"
    /\ ops = NoOps
    /\ acc = NoSums
    /\ apc = 0
    /\ Idle

NextCodes == IICall

SpecCodes == CodesInit /\ [][NextCodes]_vars

-----------------------------------------------------------------------------
(* Additions of three tallies T1, T2, T3 *)

AddInit ==
    /\ matrix = NoMatrix
    /\ ret = NoObj
    /\ err = "none"
    /\ called = "none"
    /\ ops \in AddOperands \X AddOperands \X AddOperands
    /\ acc = NoSums
    /\ apc = 0
    /\ Idle

\* left = (T1 + T2) + T3
AddLeft ==
    /\ apc = 0
    /\ acc' = [acc EXCEPT !.left = Add(Add(ops[1], ops[2]), ops[3])]
    /\ apc' = 1
    /\ UNCHANGED <<matrix, ret, err, called, ops, nPV, blocks, dataset, heap, mod, sim>>

\* right = T1 + (T2 + T3)
AddRight ==
    /\ apc = 1
    /\ acc' = [acc EXCEPT !.right = Add(ops[1], Add(ops[2], ops[3]))]
    /\ apc' = 2
    /\ UNCHANGED <<matrix, ret, err, called, ops, nPV, blocks, dataset, heap, mod, sim>>

\* fwd = T1 + T2
AddFwd ==
    /\ apc = 2
    /\ acc' = [acc EXCEPT !.fwd = Add(ops[1], ops[2])]
    /\ apc' = 3
    /\ UNCHANGED <<matrix, ret, err, called, ops, nPV, blocks, dataset, heap, mod, sim>>

\* bwd = T2 + T1
AddBwd ==
    /\ apc = 3
    /\ acc' = [acc EXCEPT !.bwd = Add(ops[2], ops[1])]
    /\ apc' = 4
    /\ UNCHANGED <<matrix, ret, err, called, ops, nPV, blocks, dataset, heap, mod, sim>>

NextAdd == AddLeft \/ AddRight \/ AddFwd \/ AddBwd

SpecAdd == AddInit /\ [][NextAdd]_vars

-----------------------------------------------------------------------------
(* Additions of a tally T and a neutral tally Z *)

\* the tallies of one counter call and the sums of two of them
Tallies == AddOperands \cup { Add(a, b) : a \in AddOperands, b \in AddOperands }

\* motifcounter(), the counters called without a matrix, and their sums
ZeroTallies ==
    LET zero == {EmptyCounter, IICounterNone, EECounterNone, EICounterNone,
                 IECounterNone}
    IN  zero \cup { Add(a, b) : a \in zero, b \in zero }

\* ops = <<T, Z>>: Z is motifcounter() or is all-zero over the keys of T
NeutralInit ==
    /\ matrix = NoMatrix
    /\ ret = NoObj
    /\ err = "none"
    /\ called = "none"
    /\ \E T \in Tallies :
          \E Z \in { z \in ZeroTallies : z = EmptyCounter \/ Keys(z) = Keys(T) } :
              ops = <<T, Z>>
    /\ acc = NoSums
    /\ apc = 2
    /\ Idle

\* fwd = T + Z, then bwd = Z + T
NextNeutral == AddFwd \/ AddBwd

SpecNeutral == NeutralInit /\ [][NextNeutral]_vars

-----------------------------------------------------------------------------
(* utils.py: the functions that slice a matrix by the number of PV cells *)

\* range(a, b) counted one past b
PyRangeInclusive(a, b) == [i \in 1 .. (IF b >= a THEN b - a + 1 ELSE 0) |-> a + i - 1]

\* range(a, b): the list a, a+1, ..., b-1
PyRange(a, b) == [i \in 1 .. (IF b > a THEN b - a ELSE 0) |-> a + i - 1]

\* the row a bound k of a slice stands for, among n rows: a negative bound
\* counts from the end and a bound outside the rows is clipped
SliceBound(k, n) ==
    IF k < 0 THEN (IF k + n < 0 THEN 0 ELSE k + n)
    ELSE (IF k > n THEN n ELSE k)

\* the rows start, ..., stop-1 of m
RowsFromTo(m, start, stop) ==
    LET p == IF stop > start THEN stop - start ELSE 0
    IN  [shape |-> <<p, Cols(m)>>,
         a |-> [c \in Pos(p, Cols(m)) |-> m.a[<<c[1] + start, c[2]>>]]]

\* matrix[:nPV]
RowsTo(m, k) == RowsFromTo(m, 0, SliceBound(k, Rows(m)))

\* matrix[nPV:]
RowsFrom(m, k) == RowsFromTo(m, SliceBound(k, Rows(m)), Rows(m))

\* m[:, idx] for a list idx of column indices: IndexError for an index
\* outside -q .. q-1 of the q columns; a negative index counts from the end
TakeCols(m, idx) ==
    IF \E i \in DOMAIN idx : idx[i] < 0 - Cols(m) \/ idx[i] >= Cols(m)
    THEN Raised("IndexError")
    ELSE Returned(
           [shape |-> <<Rows(m), Len(idx)>>,
            a |-> [c \in Pos(Rows(m), Len(idx)) |->
                     LET j == idx[c[2] + 1]
                     IN  m.a[<<c[1], IF j < 0 THEN j + Cols(m) ELSE j>>]]])

II_slice(m, k) == TakeCols(RowsTo(m, k), PyRange(0, k))
IE_slice(m, k) == TakeCols(RowsTo(m, k), PyRange(k, Rows(m)))
\* the rows before nPV and the columns from nPV on, transposed
EI_sliceMirrored(m, k) ==
    LET r == IE_slice(m, k)
    IN  IF r.err = "none" THEN Returned(Transpose(r.obj)) ELSE r
\* every row and every column
EE_sliceWhole(m, k) == TakeCols(m, PyRange(0, Rows(m)))

EI_slice(m, k) == TakeCols(RowsFrom(m, k), PyRange(0, k))
EE_slice(m, k) == TakeCols(RowsFrom(m, k), PyRange(k, Rows(m)))

\* a square 0/1 matrix and a number of PV cells from below -n to above n
SliceInit ==
    /\ CrossInput(matrix) /\ Rows(matrix) = Cols(matrix)
    /\ nPV \in (0 - Rows(matrix) - MaxOutside) .. (Rows(matrix) + MaxOutside)
    /\ ret = NoObj
    /\ err = "none"
    /\ called = "none"
    /\ ops = NoOps
    /\ acc = NoSums
    /\ apc = 0
    /\ blocks = NoBlocks
    /\ dataset = NoDataset
    /\ heap = NoHeap
    /\ mod = Module
    /\ sim = NoSim

\* the caller keeps what the slicing function returned or raised
Slice(name, r) ==
    /\ name \notin DOMAIN blocks
    /\ blocks' = [b \in (DOMAIN blocks) \cup {name} |->
                     IF b = name THEN r ELSE blocks[b]]
    /\ UNCHANGED <<matrix, ret, err, called, ops, acc, apc, nPV, dataset, heap, mod, sim>>

IISlice == Slice("II", II_slice(matrix, nPV))
IESlice == Slice("IE", IE_slice(matrix, nPV))
EISlice == Slice("EI", EI_slice(matrix, nPV))
EESlice == Slice("EE", EE_slice(matrix, nPV))

NextSlice == IISlice \/ IESlice \/ EISlice \/ EESlice

SpecSlice == SliceInit /\ [][NextSlice]_vars

-----------------------------------------------------------------------------
(* loader.py: the DataLoader *)

enum == (2 :> "pairs") @@ (3 :> "triplets") @@ (4 :> "quadruplets")
        @@ (5 :> "quintuplets") @@ (6 :> "sextuplets") @@ (7 :> "septuplets")
        @@ (8 :> "octuples")

\* utils.configuration(): every label of enum with the count 0
configuration == [label \in { enum[n] : n \in DOMAIN enum } |-> 0]

\* the DataLoader before the first file is read
NewDataLoader ==
    [configuration |-> configuration,
     nPV |-> 0,
     nGC |-> 0,
     motif |-> EmptyCounter,
     experiment |-> <<>>,
     PV |-> [i \in 0 .. 8 |-> configuration]]

\* property(lambda self: self.motif[key][field]): KeyError for a key the
\* aggregated tally does not hold
MotifProperty(d, key, field) ==
    IF key \in Keys(d.motif) THEN Returned(d.motif.dict[key][field])
    ELSE Raised("KeyError")

II_chem_found(d) == MotifProperty(d, "ii_chem", "found")
II_ce1_found(d) == MotifProperty(d, "ii_ce1", "found")
II_ce1_tested(d) == MotifProperty(d, "ii_ce1", "tested")
II_ce2_found(d) == MotifProperty(d, "ii_ce2", "found")
II_ce2_tested(d) == MotifProperty(d, "ii_ce2", "tested")

\* self.__motif = mymotif
LoadedMotifLast(motif, mymotif) == mymotif

\* self.__motif += mymotif
LoadedMotif(motif, mymotif) == Add(motif, mymotif)

\* the loop body of __init__ with __loadsyn(fname, int(fname[0])), for a file
\* whose name starts with the digit k and that holds the matrix m
LoadSyn(d, k, m) ==
    LET ncells == Rows(m)
        II_matrix == II_slice(m, k)
        EI_matrix == EI_slice(m, k)
        IE_matrix == IE_slice(m, k)
        EE_matrix == EE_slice(m, k)
    IN  IF ncells \notin DOMAIN enum THEN Raised("KeyError")
        ELSE IF k \notin DOMAIN d.PV THEN Raised("IndexError")
        ELSE IF \E r \in {II_matrix, EI_matrix, IE_matrix, EE_matrix} : r.err # "none"
        THEN Raised("IndexError")
        ELSE
        LET configurationtype == enum[ncells]
            ii == IICounter(II_matrix.obj)
            ei == EICounter(EI_matrix.obj)
            ie == IECounter(IE_matrix.obj)
            ee == EECounter(EE_matrix.obj)
        IN  IF ii.err # "none" THEN Raised(ii.err)
            ELSE IF ee.err # "none" THEN Raised(ee.err)
            ELSE
            LET mymotif == Add(Add(Add(ii.obj, ei.obj), ie.obj), ee.obj)
                mydict == [fname |-> k, matrix |-> m, motif |-> mymotif]
            IN  Returned(
                  [configuration |->
                      [d.configuration EXCEPT ![configurationtype] = @ + 1],
                   nPV |-> d.nPV + k,
                   nGC |-> d.nGC + (ncells - k),
                   motif |-> LoadedMotif(d.motif, mymotif),
                   experiment |-> Append(d.experiment, mydict),
                   PV |-> [d.PV EXCEPT ![k][configurationtype] = @ + 1]])

\* the matrix of a recording of LoadSide cells: one code from each cell to
\* the cells after it and a chemical connection back
LoadInput(m) ==
    \E c \in Codes :
        m = [shape |-> <<LoadSide, LoadSide>>,
             a |-> [x \in Pos(LoadSide, LoadSide) |->
                      IF x[1] < x[2] THEN c ELSE IF x[1] > x[2] THEN 1 ELSE 0]]

LoadInit ==
    /\ matrix = NoMatrix
    /\ ret = NoObj
    /\ err = "none"
    /\ called = "none"
    /\ ops = NoOps
    /\ acc = NoSums
    /\ apc = 0
    /\ nPV = 0
    /\ blocks = NoBlocks
    /\ dataset = NewDataLoader
    /\ heap = NoHeap
    /\ mod = Module
    /\ sim = NoSim

\* the next file of glob.glob("*.syn") is read; an exception ends __init__
\* and leaves no DataLoader
Load ==
    /\ err = "none"
    /\ Len(dataset.experiment) < MaxFiles
    /\ \E k \in 0 .. (LoadSide + MaxOutside) :
          /\ LoadInput(matrix')
          /\ nPV' = k
          /\ LET r == LoadSyn(dataset, k, matrix')
             IN  /\ err' = r.err
                 /\ dataset' = IF r.err = "none" THEN r.obj ELSE NoDataset
    /\ UNCHANGED <<ret, called, ops, acc, apc, blocks, heap, mod, sim>>

NextLoad == Load

SpecLoad == LoadInit /\ [][NextLoad]_vars

\* the matrix of a recording of RecSide cells with connection codes anywhere,
\* the diagonal included
RecInput(m) ==
    \E S \in Supports(Pos(RecSide, RecSide), RecNonzero) :
        \E f \in [S -> Codes \ {0}] : m = MatrixOf(RecSide, RecSide, S, f)

\* the only file of glob.glob("*.syn") is read: its name starts with the
\* digit k and it holds any matrix of RecInput
LoadOne ==
    /\ err = "none"
    /\ dataset.experiment = <<>>
    /\ \E k \in 0 .. (RecSide + MaxOutside) :
          /\ RecInput(matrix')
          /\ nPV' = k
          /\ LET r == LoadSyn(dataset, k, matrix')
             IN  /\ err' = r.err
                 /\ dataset' = IF r.err = "none" THEN r.obj ELSE NoDataset
    /\ UNCHANGED <<ret, called, ops, acc, apc, blocks, heap, mod, sim>>

NextRec == LoadOne

SpecRec == LoadInit /\ [][NextRec]_vars

-----------------------------------------------------------------------------
(* MotifCounter.__add__ with the entries kept by identity: a MotifCounter maps
   each key to the place in the heap of its {'tested':..., 'found':...}
   dictionary, named by the object that created it and the key *)

\* the entries the object called name has created for the tally t
HeapOf(name, t) == [x \in {name} \X Keys(t) |-> t.dict[x[2]]]

\* the object called name that holds the tally t
ObjectOf(name, t) == [dict |-> [k \in Keys(t) |-> <<name, k>>], attr |-> t.attr]

\* the tally an object holds
Deref(h, o) == [k \in Keys(o) |-> h[o.dict[k]]]

\* self + MotifCounterObj: a new dictionary {'tested':tested, 'found':found}
\* for each common key, and mysum.__setitem__(key, self[key]), which stores
\* the dictionary of the operand itself, for each other key
AddByIdentity(h, self, other) ==
    LET common == Keys(self) \cap Keys(other)
        created == [x \in {"mysum"} \X common |->
                      [tested |-> h[self.dict[x[2]]].tested + h[other.dict[x[2]]].tested,
                       found |-> h[self.dict[x[2]]].found + h[other.dict[x[2]]].found]]
        mysum == [k \in Keys(self) \cup Keys(other) |->
                    IF k \in common THEN <<"mysum", k>>
                    ELSE IF k \in Keys(self) THEN self.dict[k]
                    ELSE other.dict[k]]
        grown == [x \in (DOMAIN h) \cup (DOMAIN created) |->
                    IF x \in DOMAIN created THEN created[x] ELSE h[x]]
    IN  [heap |-> grown,
         obj |-> [dict |-> mysum, attr |-> AttrsOf([k \in DOMAIN mysum |-> grown[mysum[k]]])]]

\* ops = <<a, b>>: two objects with their own entries
IdentityInit ==
    /\ matrix = NoMatrix
    /\ ret = NoObj
    /\ err = "none"
    /\ called = "none"
    /\ \E A \in AddOperands, B \in AddOperands :
          /\ ops = <<ObjectOf("a", A), ObjectOf("b", B)>>
          /\ heap = [x \in (DOMAIN HeapOf("a", A)) \cup (DOMAIN HeapOf("b", B)) |->
                       IF x[1] = "a" THEN A.dict[x[2]] ELSE B.dict[x[2]]]
    /\ acc = NoSums
    /\ apc = 0
    /\ nPV = 0
    /\ blocks = NoBlocks
    /\ dataset = NoDataset
    /\ mod = Module
    /\ sim = NoSim

\* fwd = a + b
AddIdentity ==
    /\ apc = 0
    /\ LET r == AddByIdentity(heap, ops[1], ops[2])
       IN  /\ heap' = r.heap
           /\ acc' = [acc EXCEPT !.fwd = r.obj]
    /\ apc' = 1
    /\ UNCHANGED <<matrix, ret, err, called, ops, nPV, blocks, dataset, mod, sim>>

\* fwd[key][field] += 1 by the caller that holds the sum
SetEntry ==
    /\ apc = 1
    /\ \E key \in Keys(acc.fwd), field \in Fields :
          heap' = [heap EXCEPT ![acc.fwd.dict[key]][field] = @ + 1]
    /\ apc' = 2
    /\ UNCHANGED <<matrix, ret, err, called, ops, acc, nPV, blocks, dataset, mod, sim>>

NextIdentity == AddIdentity \/ SetEntry

SpecIdentity == IdentityInit /\ [][NextIdentity]_vars

-----------------------------------------------------------------------------
(* Sequences of calls of the ready-to-use objects and of additions *)

\* the counter the ready-to-use object called name builds for the matrix m
CountOf(name, m) ==
    CASE name = "iicounter" -> IICounter(m)
      [] name = "eecounter" -> EECounter(m)
      [] name = "eicounter" -> EICounter(m)
      [] name = "iecounter" -> IECounter(m)

\* the counts read into the object called itself, which is then returned
CounterCallInPlace(self, name, m) ==
    LET out == CountOf(name, m)
    IN  [self |-> IF out.err = "none" THEN out.obj ELSE self,
         matrix |-> m,
         out |-> out]

\* self(matrix): __call__ returns a new counter built from the matrix, and
\* read_matrix works on counts and on a copy of the matrix
CounterCall(self, name, m) ==
    [self |-> self, matrix |-> m, out |-> CountOf(name, m)]

\* m is a matrix of AddSide rows, square or with a single column, with one
\* connection code on at most MaxAddNonzero entries
SeqInput(m) ==
    \E q \in {1, AddSide} :
        \E S \in Supports(Pos(AddSide, q), MaxAddNonzero) :
            \E c \in Codes \ {0} : m = MatrixOf(AddSide, q, S, [x \in S |-> c])

SeqInit ==
    /\ SeqInput(matrix)
    /\ ret = NoObj
    /\ err = "none"
    /\ called = "none"
    /\ ops = NoOps
    /\ acc = NoSums
    /\ apc = 0
    /\ Idle

\* ret = iicounter(matrix), or eecounter, eicounter, iecounter
SeqCall ==
    /\ called = "none"
    /\ apc < MaxSeqOps
    /\ \E name \in (DOMAIN mod) \ {"motifcounter"} :
          LET r == CounterCall(mod[name], name, matrix)
          IN  /\ mod' = [mod EXCEPT ![name] = r.self]
              /\ matrix' = r.matrix
              /\ ret' = r.out.obj
              /\ err' = r.out.err
              /\ called' = name
    /\ apc' = apc + 1
    /\ UNCHANGED <<ops, acc, nPV, blocks, dataset, heap, sim>>

\* fwd = iicounter + ret, or any other ready-to-use object + ret
SeqAdd ==
    /\ ret # NoObj
    /\ acc.fwd = NoObj
    /\ apc < MaxSeqOps
    /\ \E name \in DOMAIN mod : acc' = [acc EXCEPT !.fwd = Add(mod[name], ret)]
    /\ apc' = apc + 1
    /\ UNCHANGED <<matrix, ret, err, called, ops, nPV, blocks, dataset, heap, mod, sim>>

\* the caller drops what it holds and builds the next matrix
SeqPick ==
    /\ called # "none"
    /\ apc < MaxSeqOps
    /\ SeqInput(matrix')
    /\ ret' = NoObj
    /\ err' = "none"
    /\ called' = "none"
    /\ acc' = NoSums
    /\ UNCHANGED <<ops, apc, nPV, blocks, dataset, heap, mod, sim>>

NextSeq == SeqCall \/ SeqAdd \/ SeqPick

SpecSeq == SeqInit /\ [][NextSeq]_vars

-----------------------------------------------------------------------------
(* Analysis/simulations.py: the simulated recordings of IIUniformModel and
   IISigmoidModel *)

\* chem_squarematrix(size, prob) and chem_distmatrix(matrix): a one at the
\* positions S off the diagonal where the random draw succeeded
chem_squarematrix(size, S) == MatrixOf(size, size, S, [c \in S |-> 1])

\* the pairs of combinations(range(size), 2)
UpperPairs(n) == { c \in Pos(n, n) : c[1] < c[2] }

\* elec_squarematrix(size, prob) and elec_distmatrix(matrix): a two at the
\* pairs S where the random draw succeeded
elec_squarematrix(size, S) == MatrixOf(size, size, S, [c \in S |-> 2])

\* C + E
MatAdd(A, B) == [shape |-> A.shape, a |-> [c \in DOMAIN A.a |-> A.a[c] + B.a[c]]]

RECURSIVE MergeLoop(_, _, _, _)
\* x, y = np.where(S == 2); for i, j in zip(y, x): if S[i,j] == 1:
\* S[i,j] = 3; S[j,i] = back.  S0 is S before the loop and k the number of
\* positions already visited, row after row
MergeLoop(S0, S, k, back) ==
    IF k >= Rows(S0) * Cols(S0) THEN S
    ELSE LET x == k \div Cols(S0)
             y == k % Cols(S0)
             i == y
             j == x
         IN  IF S0.a[<<x, y>>] = 2 /\ S.a[<<i, j>>] = 1
             THEN MergeLoop(S0,
                            [S EXCEPT !.a = [c \in DOMAIN S.a |->
                                IF c = <<j, i>> THEN back
                                ELSE IF c = <<i, j>> THEN 3 ELSE S.a[c]]],
                            k + 1, back)
             ELSE MergeLoop(S0, S, k + 1, back)

\* the merge that leaves the electrical code 2 in place
UniformMergeKeepsGap(C, E) == MergeLoop(MatAdd(C, E), MatAdd(C, E), 0, 2)

\* IIUniformModel.__simulate_dataset: S[i,j] = 3; S[j,i] = 0
UniformMerge(C, E) == MergeLoop(MatAdd(C, E), MatAdd(C, E), 0, 0)

\* IISigmoidModel.__simulate_dataset: S[i,j] = 3; S[j,i] = 1
SigmoidMerge(C, E) == MergeLoop(MatAdd(C, E), MatAdd(C, E), 0, 1)

\* the chemical and the electrical matrix drawn for one recording, before
\* they are merged
SimInit ==
    /\ \E SC \in Supports(OffDiagonal(SimSide), SimChem),
          SE \in Supports(UpperPairs(SimSide), SimElec) :
          sim = [C |-> chem_squarematrix(SimSide, SC),
                 E |-> elec_squarematrix(SimSide, SE),
                 uniform |-> NoObj, sigmoid |-> NoObj]
    /\ matrix = NoMatrix
    /\ ret = NoObj
    /\ err = "none"
    /\ called = "none"
    /\ ops = NoOps
    /\ acc = NoSums
    /\ apc = 0
    /\ nPV = SimSide
    /\ blocks = NoBlocks
    /\ dataset = NoDataset
    /\ heap = NoHeap
    /\ mod = Module

\* one pass of the loop of __simulate_dataset: the matrices are merged into
\* S and myiicounter += iicounter(S), with myiicounter = iicounter() before
Simulate(model, S) ==
    /\ sim[model] = NoObj
    /\ sim' = [sim EXCEPT ![model] = S]
    /\ matrix' = S
    /\ called' = "ii"
    /\ LET r == IICounter(S)
       IN  /\ err' = r.err
           /\ ret' = IF r.err = "none" THEN Add(IICounterNone, r.obj) ELSE NoObj
    /\ UNCHANGED <<ops, acc, apc, nPV, blocks, dataset, heap, mod>>

UniformSimulate == Simulate("uniform", UniformMerge(sim.C, sim.E))
SigmoidSimulate == Simulate("sigmoid", SigmoidMerge(sim.C, sim.E))

NextSim == UniformSimulate \/ SigmoidSimulate

SpecSim == SimInit /\ [][NextSim]_vars

-----------------------------------------------------------------------------
(* Properties of iicounter *)

\* iicounter(matrix) has returned a tally
IIReturned == called = "ii" /\ err = "none"

N == Rows(matrix)
Nodes == 0 .. (N - 1)

IsSquare(m) == Rows(m) = Cols(m)
ZeroDiagonal(m) == \A i \in 0 .. (Rows(m) - 1) : m.a[<<i, i>>] = 0

\* the 2 x 2 matrix ((a, b), (c, d))
M2(a, b, c, d) ==
    [shape |-> <<2, 2>>,
     a |-> [x \in Pos(2, 2) |-> IF x = <<0, 0>> THEN a
                                ELSE IF x = <<0, 1>> THEN b
                                ELSE IF x = <<1, 0>> THEN c ELSE d]]

\* the 3 x 3 matrix that is 1 on the positions S and 0 elsewhere
Ones3(S) == MatrixOf(3, 3, S, [c \in S |-> 1])

\* (i, j) has a chemical component: the entry is 1 or 3
Chem(i, j) == matrix.a[<<i, j>>] \in {1, 3}

FoundOf(k) == ret.dict[k].found
TestedOf(k) == ret.dict[k].tested

\* C1: for the all-zero n x n matrix iicounter returns found = 0 for all eight
\* keys and tested chem n(n-1), elec n(n-1)/2, c1e n(n-1), c2e n(n-1)/2,
\* c2 n(n-1)/2, con and div n(n-1)(n-2)/2, lin n(n-1)(n-2); for n = 0 and
\* n = 1 every key is (found 0, tested 0).
C1_ZeroMatrix ==
    (called = "ii" /\ IsSquare(matrix) /\ CountNonzero(matrix) = 0) =>
        /\ err = "none"
        /\ ret.dict = ("ii_chem" :> Entry(N * (N - 1), 0))
                   @@ ("ii_elec" :> Entry((N * (N - 1)) \div 2, 0))
                   @@ ("ii_c1e" :> Entry(N * (N - 1), 0))
                   @@ ("ii_c2e" :> Entry((N * (N - 1)) \div 2, 0))
                   @@ ("ii_c2" :> Entry((N * (N - 1)) \div 2, 0))
                   @@ ("ii_con" :> Entry((N * (N - 1) * (N - 2)) \div 2, 0))
                   @@ ("ii_div" :> Entry((N * (N - 1) * (N - 2)) \div 2, 0))
                   @@ ("ii_lin" :> Entry(N * (N - 1) * (N - 2), 0))
        /\ N <= 1 => \A k \in DOMAIN ret.dict : ret.dict[k] = Entry(0, 0)

\* iicounter has counted the all-zero 3 x 3 matrix
C1_Witness ==
    IIReturned /\ matrix.shape = <<3, 3>> /\ CountNonzero(matrix) = 0
    /\ TestedOf("ii_lin") = 6

\* C2: for every square matrix over {0,1,2,3}, chemical found is the number of
\* entries equal to 1 plus the number equal to 3, and electrical found the
\* number equal to 2 plus the number equal to 3; the 2-node matrix with only
\* (0,1) = 1 gives chemical 1/2, electrical 0/1 and found 0 for the others.
C2_ChemElecFound ==
    IIReturned =>
        /\ FoundOf("ii_chem") = Cardinality({ c \in Pos(N, N) : matrix.a[c] = 1 })
                              + Cardinality({ c \in Pos(N, N) : matrix.a[c] = 3 })
        /\ FoundOf("ii_elec") = Cardinality({ c \in Pos(N, N) : matrix.a[c] = 2 })
                              + Cardinality({ c \in Pos(N, N) : matrix.a[c] = 3 })
        /\ matrix = M2(0, 1, 0, 0) =>
              /\ ret.dict["ii_chem"] = Entry(2, 1)
              /\ ret.dict["ii_elec"] = Entry(1, 0)
              /\ \A k \in DOMAIN ret.dict \ {"ii_chem"} : FoundOf(k) = 0

\* iicounter has counted a matrix that holds a 1, a 2 and a 3
C2_Witness ==
    IIReturned /\ \A v \in {1, 2, 3} : \E c \in Pos(N, N) : matrix.a[c] = v

\* C3: for every square matrix over {0,1,2,3}, ii_c1e found is the number of
\* entries equal to 3 plus the number of entries (i,j) = 3 whose mirror entry
\* (j,i) is 1: a lone 3 gives 1, a 3 with mirror 1 gives 2, a 3 with mirror 3
\* gives 2, and a matrix without any 3 gives 0.
C3_C1eFound ==
    IIReturned =>
        /\ FoundOf("ii_c1e") =
              Cardinality({ c \in Pos(N, N) : matrix.a[c] = 3 })
            + Cardinality({ c \in Pos(N, N) :
                            matrix.a[c] = 3 /\ matrix.a[<<c[2], c[1]>>] = 1 })
        /\ matrix \in {M2(0, 3, 0, 0), M2(0, 0, 3, 0)} => FoundOf("ii_c1e") = 1
        /\ matrix \in {M2(0, 3, 1, 0), M2(0, 1, 3, 0)} => FoundOf("ii_c1e") = 2
        /\ matrix = M2(0, 3, 3, 0) => FoundOf("ii_c1e") = 2
        /\ (\A c \in Pos(N, N) : matrix.a[c] # 3) => FoundOf("ii_c1e") = 0

\* iicounter has counted a matrix with a 3 whose mirror is 1 and another 3
C3_Witness ==
    /\ IIReturned
    /\ \E c \in Pos(N, N) : matrix.a[c] = 3 /\ matrix.a[<<c[2], c[1]>>] = 1
    /\ \E c \in Pos(N, N) : matrix.a[c] = 3 /\ matrix.a[<<c[2], c[1]>>] # 1

\* the unordered pairs {i, j} of distinct nodes
Pairs == { P \in SUBSET Nodes : Cardinality(P) = 2 }

\* C4 as stated: ii_c2e found is the number of unordered pairs {i,j} whose
\* entries (i,j) and (j,i) are both 3; (0,1) = 3 with (1,0) = 3 gives 1 and
\* (0,1) = 3 with (1,0) = 1 gives 0.
C4_AsStated ==
    IIReturned =>
        FoundOf("ii_c2e") =
            Cardinality({ P \in Pairs :
                          \A i \in P, j \in P : i # j => matrix.a[<<i, j>>] = 3 })

\* C4, amended: ii_c2e found is the number of unordered pairs {i,j} with one
\* entry equal to 3 and the mirror entry equal to 1, each pair counted once:
\* (0,1) = 3 with (1,0) = 3 gives 0 and (0,1) = 3 with (1,0) = 1 gives 1.
C4_C2ePairs ==
    IIReturned =>
        /\ FoundOf("ii_c2e") =
              Cardinality({ P \in Pairs :
                            \E i \in P, j \in P :
                                matrix.a[<<i, j>>] = 3 /\ matrix.a[<<j, i>>] = 1 })
        /\ matrix = M2(0, 3, 3, 0) => FoundOf("ii_c2e") = 0
        /\ matrix = M2(0, 3, 1, 0) => FoundOf("ii_c2e") = 1

\* iicounter has counted a matrix with a pair 3/1 and a pair 3/3 or 3/0
C4_Witness ==
    /\ IIReturned
    /\ FoundOf("ii_c2e") = 1
    /\ \E i \in Nodes, j \in Nodes :
          i # j /\ matrix.a[<<i, j>>] = 3 /\ matrix.a[<<j, i>>] # 1

\* C5: ii_c2e found is the number of entries (i,j) = 3 whose mirror entry
\* (j,i) is 1: both 2-node matrices with one 3 and a mirror 1 give 1, while a
\* lone 3, a lone 2, a lone 1, a reciprocal 1/1 pair and the zero matrix give 0.
C5_C2eFound ==
    IIReturned =>
        /\ FoundOf("ii_c2e") =
              Cardinality({ c \in Pos(N, N) :
                            matrix.a[c] = 3 /\ matrix.a[<<c[2], c[1]>>] = 1 })
        /\ matrix \in {M2(0, 3, 1, 0), M2(0, 1, 3, 0)} => FoundOf("ii_c2e") = 1
        /\ matrix \in {M2(0, 3, 0, 0), M2(0, 0, 3, 0), M2(0, 2, 0, 0),
                       M2(0, 0, 2, 0), M2(0, 1, 0, 0), M2(0, 0, 1, 0),
                       M2(0, 1, 1, 0), Ones3({})} => FoundOf("ii_c2e") = 0

\* iicounter has counted the 2-node matrix with (0,1) = 1 and (1,0) = 3
C5_Witness ==
    IIReturned /\ matrix = M2(0, 1, 3, 0) /\ FoundOf("ii_c2e") = 1

\* C6: for every zero-diagonal square matrix over {0,1,2,3}, ii_c2 found is
\* the number of unordered pairs {i,j}, i # j, with a chemical component
\* (1 or 3) in both directions, each pair counted once.
C6_C2Found ==
    (IIReturned /\ ZeroDiagonal(matrix)) =>
        FoundOf("ii_c2") =
            Cardinality({ P \in Pairs : \A i \in P, j \in P : i # j => Chem(i, j) })

\* iicounter has counted a zero-diagonal matrix with a reciprocal pair 3/1
\* and a further one-way chemical entry
C6_Witness ==
    /\ IIReturned /\ ZeroDiagonal(matrix)
    /\ FoundOf("ii_c2") = 1
    /\ \E i \in Nodes, j \in Nodes : matrix.a[<<i, j>>] = 3 /\ matrix.a[<<j, i>>] = 1
    /\ \E i \in Nodes, j \in Nodes : Chem(i, j) /\ ~Chem(j, i)

\* C7: for every zero-diagonal square matrix, convergent found is the number
\* of (unordered pair of distinct sources {i,j}, target k) with chemical edges
\* i->k and j->k, and divergent found the number of (source i, unordered pair
\* of distinct targets {j,k}) with chemical edges i->j and i->k; the 3-node
\* matrix with only (0,2) = 1 and (1,2) = 1 gives convergent 1, divergent 0,
\* chain 0, with tested 3 for convergent and divergent.
C7_ConDivFound ==
    (IIReturned /\ ZeroDiagonal(matrix)) =>
        /\ FoundOf("ii_con") =
              Cardinality({ x \in Pairs \X Nodes : \A i \in x[1] : Chem(i, x[2]) })
        /\ FoundOf("ii_div") =
              Cardinality({ x \in Nodes \X Pairs : \A j \in x[2] : Chem(x[1], j) })
        /\ matrix = Ones3({<<0, 2>>, <<1, 2>>}) =>
              /\ ret.dict["ii_con"] = Entry(3, 1)
              /\ ret.dict["ii_div"] = Entry(3, 0)
              /\ FoundOf("ii_lin") = 0

\* iicounter has counted the 3-node matrix with only (0,2) = 1 and (1,2) = 1
C7_Witness ==
    /\ IIReturned
    /\ matrix = Ones3({<<0, 2>>, <<1, 2>>})
    /\ FoundOf("ii_con") = 1

\* C8: for every zero-diagonal square matrix, ii_lin found is the number of
\* ordered triples (i,j,k) of pairwise distinct nodes with chemical edges i->j
\* and j->k, so a reciprocal pair alone contributes 0; the 3-node matrix with
\* only (0,1) = 1 and (1,2) = 1 gives chain 1, convergent 0, divergent 0.
C8_LinFound ==
    (IIReturned /\ ZeroDiagonal(matrix)) =>
        /\ FoundOf("ii_lin") =
              Cardinality({ x \in Nodes \X Nodes \X Nodes :
                            /\ x[1] # x[2] /\ x[2] # x[3] /\ x[1] # x[3]
                            /\ Chem(x[1], x[2]) /\ Chem(x[2], x[3]) })
        /\ (\E i \in Nodes, j \in Nodes :
                \A c \in Pos(N, N) : matrix.a[c] # 0 <=> c \in {<<i, j>>, <<j, i>>})
              => FoundOf("ii_lin") = 0
        /\ matrix = Ones3({<<0, 1>>, <<1, 2>>}) =>
              /\ FoundOf("ii_lin") = 1
              /\ FoundOf("ii_con") = 0
              /\ FoundOf("ii_div") = 0

\* iicounter has counted a zero-diagonal 3-node matrix with a reciprocal
\* chemical pair and a chain through a third node
C8_Witness ==
    /\ IIReturned /\ ZeroDiagonal(matrix)
    /\ FoundOf("ii_c2") = 1
    /\ FoundOf("ii_lin") >= 1

\* C9: for every tally produced by a single counter invocation on a
\* zero-diagonal matrix over {0,1,2,3} (iicounter, eecounter) or on a 0/1
\* cross block (eicounter, iecounter), every motif key has found <= tested.
C9_FoundLeTested ==
    \/ /\ called \in {"ii", "ee"}
       /\ err = "none"
       /\ ZeroDiagonal(matrix)
    \/ /\ called \in {"ei", "ie"}
       /\ \A c \in DOMAIN matrix.a : matrix.a[c] \in {0, 1}
    => \A k \in DOMAIN ret.dict : FoundOf(k) <= TestedOf(k)

\* C16: calling iicounter or eecounter on a non-square matrix fails with an
\* error before any count is stored, and no tally, not even a partial one, is
\* returned to the caller.
C16_NonSquareFails ==
    (called \in {"ii", "ee"} /\ ~IsSquare(matrix)) =>
        /\ err = "IOError"
        /\ ret = NoObj

\* iicounter was called on a matrix with more rows than columns that holds
\* connections
C16_Witness ==
    /\ called = "ii"
    /\ Rows(matrix) > Cols(matrix)
    /\ CountNonzero(matrix) > 0
    /\ err = "IOError"

\* C17: calling iicounter on a square matrix that has an entry outside
\* {0,1,2,3} fails with an error surfaced to the caller instead of returning
\* a tally.
C17_InvalidCodeFails ==
    (called = "ii" /\ IsSquare(matrix)
       /\ \E c \in DOMAIN matrix.a : matrix.a[c] \notin Codes) =>
        /\ err # "none"
        /\ ret = NoObj

\* C18: calling iicounter on a square matrix with a non-zero diagonal entry
\* fails with an error, so that a self-connection is never counted as a
\* chemical or electrical connection or as part of a bidirectional,
\* convergent, divergent or chain motif.
C18_SelfLoopFails ==
    (called = "ii" /\ IsSquare(matrix) /\ ~ZeroDiagonal(matrix)) =>
        /\ err # "none"
        /\ ret = NoObj

-----------------------------------------------------------------------------
(* Properties of eecounter *)

EEReturned == called = "ee" /\ err = "none"

\* C23: for eecounter(M) with a square matrix M the attributes ii_c2_found,
\* ii_con_found, ii_div_found and ii_chain_found give the numbers of
\* bidirectional, convergent, divergent and linear-chain chemical motifs of M.
C23_EEAttributes ==
    EEReturned =>
        /\ GetAttr(ret, "ii_c2", "found") = Returned(FoundOf("ee_c2"))
        /\ GetAttr(ret, "ii_con", "found") = Returned(FoundOf("ee_con"))
        /\ GetAttr(ret, "ii_div", "found") = Returned(FoundOf("ee_div"))
        /\ GetAttr(ret, "ii_chain", "found") = Returned(FoundOf("ee_lin"))

\* C27: EEMotifCounter is algorithmically identical to IIMotifCounter: for
\* every square matrix M and each of the eight motifs X (chem, elec, c1e,
\* c2e, c2, con, div, lin), eecounter(M)['ee_X'] has the same found and
\* tested as iicounter(M)['ii_X'].
C27_EELikeII ==
    (called = "ee" /\ IsSquare(matrix)) =>
        LET ii == IICounter(matrix)
        IN  /\ err = ii.err
            /\ err = "none" =>
                  /\ ret.dict["ee_chem"] = ii.obj.dict["ii_chem"]
                  /\ ret.dict["ee_elec"] = ii.obj.dict["ii_elec"]
                  /\ ret.dict["ee_c1e"] = ii.obj.dict["ii_c1e"]
                  /\ ret.dict["ee_c2e"] = ii.obj.dict["ii_c2e"]
                  /\ ret.dict["ee_c2"] = ii.obj.dict["ii_c2"]
                  /\ ret.dict["ee_con"] = ii.obj.dict["ii_con"]
                  /\ ret.dict["ee_div"] = ii.obj.dict["ii_div"]
                  /\ ret.dict["ee_lin"] = ii.obj.dict["ii_lin"]

\* eecounter has counted a matrix with more divergent than convergent motifs
\* and an electrical synapse
C27_Witness ==
    /\ EEReturned
    /\ FoundOf("ee_div") > FoundOf("ee_con")
    /\ FoundOf("ee_elec") > 0

\* C28: for every square matrix M over {0,1,2,3}, iicounter(M) and
\* iicounter of the transpose of M agree on found for chem, elec, c1e, c2e,
\* c2 and lin, while convergent found and divergent found are exchanged;
\* the tested values are identical.
C28_Transpose ==
    IIReturned =>
        LET t == IICounter(Transpose(matrix))
        IN  /\ t.err = "none"
            /\ \A k \in {"ii_chem", "ii_elec", "ii_c1e", "ii_c2e", "ii_c2", "ii_lin"} :
                  t.obj.dict[k].found = FoundOf(k)
            /\ t.obj.dict["ii_con"].found = FoundOf("ii_div")
            /\ t.obj.dict["ii_div"].found = FoundOf("ii_con")
            /\ \A k \in Keys(ret) : t.obj.dict[k].tested = TestedOf(k)

\* iicounter has counted a matrix that differs from its transpose, with a
\* convergent motif, no divergent one and an electrical synapse with one
\* chemical synapse
C28_Witness ==
    /\ IIReturned
    /\ matrix # Transpose(matrix)
    /\ FoundOf("ii_con") > 0
    /\ FoundOf("ii_div") = 0
    /\ FoundOf("ii_c1e") > 0

-----------------------------------------------------------------------------
(* Properties of eicounter and iecounter *)

CrossReturned == called \in {"ei", "ie"} /\ err = "none"

\* the targets (columns) and the unordered pairs of sources (rows)
Targets == 0 .. (Cols(matrix) - 1)
SourcePairs == { P \in SUBSET (0 .. (Rows(matrix) - 1)) : Cardinality(P) = 2 }

\* C21: for every p x q 0/1 matrix between two populations (rows = sources,
\* columns = targets) eicounter and iecounter report the chemical key ('ei',
\* 'ie') with found = the number of non-zero entries and tested = p*q, and
\* eicounter reports 'e2i' with found = the number of (target, unordered pair
\* of sources both connected to it), which is the sum over the columns of
\* C(s,2), and tested = q*C(p,2), the number of (target, unordered pair of
\* sources).
C21_CrossCounts ==
    CrossReturned =>
        LET p == Rows(matrix)
            q == Cols(matrix)
            nonzero == Cardinality({ c \in Pos(p, q) : matrix.a[c] # 0 })
        IN  /\ called = "ie" => ret.dict["ie"] = Entry(p * q, nonzero)
            /\ called = "ei" =>
                  /\ ret.dict["ei"] = Entry(p * q, nonzero)
                  /\ TestedOf("e2i") = Cardinality(Targets \X SourcePairs)
                  /\ TestedOf("e2i") = q * (IF p < 2 THEN 0 ELSE (p * (p - 1)) \div 2)
                  /\ FoundOf("e2i") =
                        Cardinality({ x \in Targets \X SourcePairs :
                                      \A i \in x[2] : matrix.a[<<i, x[1]>>] # 0 })

\* eicounter has counted a matrix in which two sources converge on one target
\* and a third source is connected to another target
C21_Witness ==
    /\ called = "ei" /\ err = "none"
    /\ FoundOf("ei") = 3
    /\ FoundOf("e2i") = 1
    /\ TestedOf("e2i") > 1

-----------------------------------------------------------------------------
(* Properties of the addition *)

\* C10: tally addition is associative and commutative: (T1 + T2) + T3 and
\* T1 + (T2 + T3) have the same keys and the same found and tested for every
\* key, and T1 + T2 equals T2 + T1 field by field.
C10_AddAssocComm ==
    /\ apc >= 2 =>
          /\ DOMAIN acc.left.dict = DOMAIN acc.right.dict
          /\ \A k \in DOMAIN acc.left.dict :
                /\ acc.left.dict[k].found = acc.right.dict[k].found
                /\ acc.left.dict[k].tested = acc.right.dict[k].tested
    /\ apc >= 4 =>
          /\ DOMAIN acc.fwd.dict = DOMAIN acc.bwd.dict
          /\ \A k \in DOMAIN acc.fwd.dict :
                /\ acc.fwd.dict[k].found = acc.bwd.dict[k].found
                /\ acc.fwd.dict[k].tested = acc.bwd.dict[k].tested

\* all four sums are computed, T1 and T3 share their keys with different
\* counts and T2 has keys of another counter
C10_Witness ==
    /\ apc = 4
    /\ Keys(ops[2]) # {}
    /\ Keys(ops[1]) \cap Keys(ops[2]) = {}
    /\ \E k \in Keys(ops[1]) \cap Keys(ops[3]) :
          /\ ops[1].dict[k].found > 0
          /\ ops[1].dict[k].tested > 0
          /\ ops[3].dict[k].found # ops[1].dict[k].found
    /\ \E k \in Keys(ops[2]) : ops[2].dict[k].found > 0

\* s holds the union of the keys of a and b, the sums of found and of tested
\* for a key of both, and the values of the one operand that has the key
IsSumOf(s, a, b) ==
    /\ Keys(s) = Keys(a) \cup Keys(b)
    /\ \A k \in Keys(a) \cap Keys(b) :
          /\ s.dict[k].found = a.dict[k].found + b.dict[k].found
          /\ s.dict[k].tested = a.dict[k].tested + b.dict[k].tested
    /\ \A k \in Keys(a) \ Keys(b) :
          /\ s.dict[k].found = a.dict[k].found
          /\ s.dict[k].tested = a.dict[k].tested
    /\ \A k \in Keys(b) \ Keys(a) :
          /\ s.dict[k].found = b.dict[k].found
          /\ s.dict[k].tested = b.dict[k].tested

SameTally(s, t) ==
    /\ Keys(s) = Keys(t)
    /\ \A k \in Keys(s) :
          /\ s.dict[k].found = t.dict[k].found
          /\ s.dict[k].tested = t.dict[k].tested

\* Z has only entries (tested 0, found 0), over no keys or over the keys of T
IsNeutralFor(Z, T) ==
    /\ \A k \in Keys(Z) : Z.dict[k] = Entry(0, 0)
    /\ Keys(Z) = {} \/ Keys(Z) = Keys(T)

-----------------------------------------------------------------------------
(* Properties of the slicing functions *)

\* M[r0:r1, c0:c1] for 0 <= r0 <= r1 <= n and 0 <= c0 <= c1 <= n
Block(m, r0, r1, c0, c1) ==
    [shape |-> <<r1 - r0, c1 - c0>>,
     a |-> [c \in Pos(r1 - r0, c1 - c0) |-> m.a[<<c[1] + r0, c[2] + c0>>]]]

\* the slicing function name has returned the block b
Sliced(name, b) ==
    name \in DOMAIN blocks => blocks[name] = [obj |-> b, err |-> "none"]

\* C19: for every n x n matrix M and every k with 0 <= k <= n, II_slice(M,k)
\* is M[0:k,0:k], EE_slice(M,k) is M[k:n,k:n], IE_slice(M,k) is M[0:k,k:n] and
\* EI_slice(M,k) is M[k:n,0:k], so every entry of M lies in exactly one of the
\* four blocks.
C19_Slices ==
    (IsSquare(matrix) /\ 0 <= nPV /\ nPV <= N) =>
        /\ Sliced("II", Block(matrix, 0, nPV, 0, nPV))
        /\ Sliced("EE", Block(matrix, nPV, N, nPV, N))
        /\ Sliced("IE", Block(matrix, 0, nPV, nPV, N))
        /\ Sliced("EI", Block(matrix, nPV, N, 0, nPV))
        /\ DOMAIN blocks = {"II", "EE", "IE", "EI"} =>
              /\ \A i \in Nodes, j \in Nodes :
                    LET row == IF i < nPV THEN "I" ELSE "E"
                        col == IF j < nPV THEN "I" ELSE "E"
                        r == IF i < nPV THEN i ELSE i - nPV
                        c == IF j < nPV THEN j ELSE j - nPV
                    IN  matrix.a[<<i, j>>] = blocks[row \o col].obj.a[<<r, c>>]
              /\ Cardinality(DOMAIN blocks["II"].obj.a)
                  + Cardinality(DOMAIN blocks["EE"].obj.a)
                  + Cardinality(DOMAIN blocks["IE"].obj.a)
                  + Cardinality(DOMAIN blocks["EI"].obj.a) = N * N

\* a 3 x 3 matrix with a 1 off the diagonal is cut after its first row and
\* column into four blocks, and the 1 is in the IE or in the EI block
C19_Witness ==
    /\ matrix.shape = <<3, 3>> /\ nPV = 1
    /\ DOMAIN blocks = {"II", "EE", "IE", "EI"}
    /\ \A b \in DOMAIN blocks : blocks[b].err = "none"
    /\ CountNonzero(blocks["IE"].obj) + CountNonzero(blocks["EI"].obj) >= 1
    /\ blocks["EE"].obj.shape = <<2, 2>>

\* C20: each of the four slicing functions fails with an error when the
\* partition index k is below 0 or above the matrix size n, rather than
\* returning a block.
C20_SliceFails ==
    (IsSquare(matrix) /\ (nPV < 0 \/ nPV > N)) =>
        \A b \in DOMAIN blocks : blocks[b].err # "none"

-----------------------------------------------------------------------------
(* Properties of the DataLoader *)

RECURSIVE AddAllBack(_, _)
\* the motifs of the experiments added from the last one to the first one
AddAllBack(experiment, i) ==
    IF i > Len(experiment) THEN EmptyCounter
    ELSE Add(AddAllBack(experiment, i + 1), experiment[i].motif)

\* the sum of field of key over the motifs of the experiments
FieldSum(experiment, key, field) ==
    SumF([i \in 0 .. (Len(experiment) - 1) |->
            IF key \in Keys(experiment[i + 1].motif)
            THEN experiment[i + 1].motif.dict[key][field] ELSE 0],
         Len(experiment))

\* C13: after DataLoader has loaded any sequence of experiment matrices, for
\* every motif key dataset.motif[key] has found and tested equal to the sums
\* of experiment[i]['motif'][key] over the loaded experiments: no entry is
\* counted twice or lost, and the aggregate is the same when the experiments
\* are added in the opposite order.
C13_LoaderSums ==
    dataset # NoDataset =>
        LET experiment == dataset.experiment
        IN  /\ Keys(dataset.motif) =
                  UNION { Keys(experiment[i].motif) : i \in DOMAIN experiment }
            /\ \A key \in Keys(dataset.motif), field \in Fields :
                  dataset.motif.dict[key][field] = FieldSum(experiment, key, field)
            /\ SameTally(dataset.motif, AddAllBack(experiment, 1))

\* two recordings with different numbers of PV cells are loaded, both with
\* chemical connections found between PV cells
C13_Witness ==
    /\ dataset # NoDataset
    /\ Len(dataset.experiment) = 2
    /\ dataset.experiment[1].fname # dataset.experiment[2].fname
    /\ dataset.experiment[1].matrix # dataset.experiment[2].matrix
    /\ \A i \in 1 .. 2 : dataset.experiment[i].motif.dict["ii_chem"].found > 0
    /\ dataset.motif.dict["ii_chem"].found >= 2
    /\ dataset.motif.dict["ie"].tested > 0

\* C24: every tally iicounter returns for a matrix has the keys 'ii_ce1' and
\* 'ii_ce2', so that after loading any set of experiments
\* DataLoader.II_ce1_found, II_ce1_tested, II_ce2_found and II_ce2_tested
\* return the aggregated counts instead of failing.
C24_Ce1Ce2Keys ==
    (dataset # NoDataset /\ dataset.experiment # <<>>) =>
        /\ \A i \in DOMAIN dataset.experiment :
              LET e == dataset.experiment[i]
              IN  {"ii_ce1", "ii_ce2"} \subseteq
                      Keys(IICounter(II_slice(e.matrix, e.fname).obj).obj)
        /\ II_ce1_found(dataset) =
              Returned(FieldSum(dataset.experiment, "ii_c1e", "found"))
        /\ II_ce1_tested(dataset) =
              Returned(FieldSum(dataset.experiment, "ii_c1e", "tested"))
        /\ II_ce2_found(dataset) =
              Returned(FieldSum(dataset.experiment, "ii_c2e", "found"))
        /\ II_ce2_tested(dataset) =
              Returned(FieldSum(dataset.experiment, "ii_c2e", "tested"))

\* the only recording has been read; mymotif is its own tally
Recorded == dataset # NoDataset /\ Len(dataset.experiment) = 1
mymotif == dataset.experiment[1].motif

\* the positions of the block from the first nPV cells to the other cells,
\* of the block from the other cells to the first nPV cells, and of both
UpperCross == { c \in DOMAIN matrix.a : c[1] < nPV /\ c[2] >= nPV }
LowerCross == { c \in DOMAIN matrix.a : c[1] >= nPV /\ c[2] < nPV }
Connected(P) == { c \in P : matrix.a[c] # 0 }

\* C22: in the tally the loader builds for the recording with the matrix M
\* and the number k of PV cells, 'ie' found is the number of non-zero
\* entries of M[0:k,k:n] and 'ei' found the number of non-zero entries of
\* M[k:n,0:k]; a connection present in only one of the two directions
\* between the populations is counted only under the key of that direction.
C22_CrossDirections ==
    Recorded =>
        /\ mymotif.dict["ie"].found = Cardinality(Connected(UpperCross))
        /\ mymotif.dict["ei"].found = Cardinality(Connected(LowerCross))
        /\ Connected(LowerCross) = {} => mymotif.dict["ei"].found = 0
        /\ Connected(UpperCross) = {} => mymotif.dict["ie"].found = 0

\* a recording with one PV cell connected to the other cell, which is not
\* connected back
C22_Witness ==
    /\ Recorded
    /\ Connected(UpperCross) # {}
    /\ Connected(LowerCross) = {}
    /\ mymotif.dict["ie"].found = 1
    /\ mymotif.dict["ei"].found = 0

\* C30: for every n x n matrix M and every number k of PV cells with
\* 0 <= k <= n, the tally the loader builds for the recording has
\* ii_chem + ee_chem + ei + ie tested = n(n-1); when M has a zero diagonal
\* and only 0 and 1 between the populations, ii_chem + ee_chem + ei + ie found
\* is the number of entries of M equal to 1 or 3; and the ii_* entries of
\* the tally are those iicounter gives for M[0:k,0:k], whatever eecounter
\* adds.
C30_Partition ==
    Recorded =>
        LET n == Rows(matrix)
            total(field) == mymotif.dict["ii_chem"][field]
                            + mymotif.dict["ee_chem"][field]
                            + mymotif.dict["ei"][field]
                            + mymotif.dict["ie"][field]
        IN  /\ nPV \in 0 .. n
            /\ total("tested") = n * (n - 1)
            /\ (/\ ZeroDiagonal(matrix)
                /\ \A c \in UpperCross \cup LowerCross : matrix.a[c] \in {0, 1})
                  => total("found") =
                        Cardinality({ c \in DOMAIN matrix.a : matrix.a[c] \in {1, 3} })
            /\ \A key \in SeqRange(IIMotifs) :
                  mymotif.dict[key] =
                      IICounter(Block(matrix, 0, nPV, 0, nPV)).obj.dict[key]

\* a recording with one PV cell and one other cell, connected in both
\* directions
C30_Witness ==
    /\ Recorded
    /\ nPV = 1
    /\ Connected(UpperCross) # {}
    /\ Connected(LowerCross) # {}
    /\ ZeroDiagonal(matrix)
    /\ mymotif.dict["ie"].found + mymotif.dict["ei"].found = 2

-----------------------------------------------------------------------------
(* Properties of the addition with the entries kept by identity *)

\* C14: a + b has no side effects and returns a new, independent tally: both
\* operands keep their keys and their found and tested values through the
\* addition and through any later change of an entry of the result, an entry
\* for a key of only one operand included.
C14_NoSideEffects ==
    [][/\ ops' = ops
       /\ Deref(heap', ops[1]) = Deref(heap, ops[1])
       /\ Deref(heap', ops[2]) = Deref(heap, ops[2])]_vars

-----------------------------------------------------------------------------
(* Properties of sequences of calls *)

\* C15: counting is stateless: calling a ready-to-use counter (iicounter,
\* eecounter, eicounter, iecounter) with a matrix changes neither that object
\* nor the matrix, so after any sequence of earlier calls and additions the
\* tally returned for a matrix M depends only on M.
C15_Stateless ==
    [][/\ mod' = mod
       /\ mod = Module
       /\ (called = "none" /\ called' # "none") =>
             /\ matrix' = matrix
             /\ ret' = CountOf(called', matrix).obj
             /\ err' = CountOf(called', matrix).err]_vars

\* iicounter has returned counts above 0 after an earlier call, and a
\* ready-to-use object has been added to what it returned
C15_Witness ==
    /\ apc = 3
    /\ called = "iicounter"
    /\ \E k \in Keys(ret) : ret.dict[k].found > 0
    /\ acc.fwd # NoObj
    /\ Keys(acc.fwd) # Keys(ret)
    /\ mod = Module

\* every key of the tally o has its two attributes, equal to the entry
HasAttributes(o) ==
    \A k \in Keys(o), field \in Fields :
        GetAttr(o, k, field) = Returned(o.dict[k][field])

\* C29: for every tally returned by calling a counter with a matrix and for
\* every tally returned by an addition, each key k has the attributes k_found
\* and k_tested, equal to tally[k]['found'] and tally[k]['tested'].
C29_Attributes ==
    /\ (called # "none" /\ err = "none") => HasAttributes(ret)
    /\ acc.fwd # NoObj => HasAttributes(acc.fwd)

\* eicounter has returned counts above 0 and the ready-to-use iicounter,
\* which has no attributes, has been added to what it returned
C29_Witness ==
    /\ called = "eicounter" /\ err = "none"
    /\ ret.dict["ei"].found > 0
    /\ acc.fwd # NoObj
    /\ {"ii_chem", "e2i"} \subseteq Keys(acc.fwd)
    /\ GetAttr(acc.fwd, "ii_chem", "tested").err = "none"

-----------------------------------------------------------------------------
(* Properties of the simulated recordings *)

\* the merged matrices computed so far
Merged == { S \in {sim.uniform, sim.sigmoid} : S # NoObj }

Electrical(S, c) == S.a[c] \in {2, 3}

\* C25: every matrix IIUniformModel and IISigmoidModel pass to iicounter,
\* for any outcome of the random draws, has a zero diagonal and entries in
\* {0,1,2,3} only, and for each unordered pair {i,j} at most one of the
\* entries (i,j) and (j,i) carries an electrical code (2 or 3).
C25_SimulatedMatrices ==
    /\ called = "ii" => matrix \in Merged
    /\ \A S \in Merged :
          /\ ZeroDiagonal(S)
          /\ \A c \in DOMAIN S.a : S.a[c] \in Codes
          /\ \A c \in DOMAIN S.a :
                ~(Electrical(S, c) /\ Electrical(S, <<c[2], c[1]>>))

\* both models have merged an electrical synapse drawn for a pair whose only
\* chemical synapse runs in the mirrored direction
C25_Witness ==
    /\ sim.uniform # NoObj /\ sim.sigmoid # NoObj
    /\ \E c \in DOMAIN sim.E.a :
          /\ sim.E.a[c] = 2 /\ sim.C.a[c] = 0 /\ sim.C.a[<<c[2], c[1]>>] = 1
          /\ sim.uniform.a[<<c[2], c[1]>>] = 3
          /\ sim.sigmoid.a[<<c[2], c[1]>>] = 3

\* C26: for every 0/1 zero-diagonal matrix C and every upper-triangular 0/2
\* matrix E the merge step of IISigmoidModel and the merge step of
\* IIUniformModel produce the same combined matrix, and (i,j) has a chemical
\* component (1 or 3) in it only if C[i,j] = 1.
C26_SameMerge ==
    (sim.uniform # NoObj /\ sim.sigmoid # NoObj) =>
        /\ sim.sigmoid = sim.uniform
        /\ \A S \in Merged : \A c \in DOMAIN S.a :
              S.a[c] \in {1, 3} => sim.C.a[c] = 1

=============================================================================
